---- MODULE Spec2Model ----
(***************************************************************************)
(* Model of the scheduled report delivery engine of report_manager.py:     *)
(* ReportManager instances, each owning a BackgroundScheduler, sharing the *)
(* durable registry schedules.json, as driven by show_schedule_page.       *)
(***************************************************************************)
EXTENDS Integers, Sequences, FiniteSets, TLC

\* ------------------------------------------------------------ bounds
MaxInst == 2          \* ReportManager objects created per process lifetime
MaxThreads == 2       \* caller threads (one script run per browser session)
MaxTick == 2          \* clock ticks the model lets pass
TicksPerSecond == 2   \* clock ticks in one second of strftime's resolution
MaxFaults == 1        \* I/O failures injected into schedules.json accesses
MaxCalls == 2         \* schedule_report / remove_schedule calls begun
SingleCalls == 4      \* calls begun in a run of one ReportManager by itself

Inst == 1..MaxInst
Thread == 1..MaxThreads

\* ------------------------------------------------------------ inputs
Datasets == {"sales"}

required_email_fields ==
    {"smtp_server", "smtp_port", "sender_email", "sender_password",
     "recipients", "format"}

EmailTwo ==
    [smtp_server |-> "smtp.x", smtp_port |-> 587, sender_email |-> "me@x",
     sender_password |-> "pw", recipients |-> <<"r1", "r2">>, format |-> "CSV"]
EmailOne ==
    [smtp_server |-> "smtp.x", smtp_port |-> 587, sender_email |-> "me@x",
     sender_password |-> "pw", recipients |-> <<"r3">>, format |-> "PDF"]
EmailNoRecipients ==
    [smtp_server |-> "smtp.x", smtp_port |-> 587, sender_email |-> "me@x",
     sender_password |-> "pw", recipients |-> <<>>, format |-> "CSV"]
EmailNoPassword ==
    [smtp_server |-> "smtp.x", smtp_port |-> 587, sender_email |-> "me@x",
     recipients |-> <<"r1">>, format |-> "CSV"]
EmailConfigs == {EmailTwo, EmailOne, EmailNoRecipients, EmailNoPassword}

SchedDaily == [type |-> "daily", hour |-> 8, minute |-> 0]
SchedWeekly == [type |-> "weekly", day |-> 0, hour |-> 8, minute |-> 0]
SchedMonthly == [type |-> "monthly", day |-> 31, hour |-> 8, minute |-> 0]
SchedOneTime == [type |-> "one-time"]
SchedNoType == [hour |-> 8, minute |-> 0]
SchedBadHour == [type |-> "daily", hour |-> 24, minute |-> 0]
ScheduleConfigs ==
    {SchedDaily, SchedWeekly, SchedMonthly, SchedOneTime, SchedNoType, SchedBadHour}

\* The (email_config, schedule_config) pairs callers pass: every schedule type
\* with a complete configuration, and each way of being rejected.
Requests ==
    {<<EmailTwo, SchedDaily>>, <<EmailOne, SchedWeekly>>, <<EmailTwo, SchedMonthly>>,
     <<EmailNoPassword, SchedDaily>>, <<EmailNoRecipients, SchedDaily>>,
     <<EmailTwo, SchedOneTime>>, <<EmailTwo, SchedNoType>>, <<EmailTwo, SchedBadHour>>,
     <<EmailNoRecipients, SchedBadHour>>}

\* ------------------------------------------------------------ helpers
EmptyMap == [k \in {} |-> 0]
Put(m, k, v) == [y \in (DOMAIN m) \cup {k} |-> IF y = k THEN v ELSE m[y]]
Del(m, k) == [y \in (DOMAIN m) \ {k} |-> m[y]]
\* dict.get(key, default)
Get(d, key, default) == IF key \in DOMAIN d THEN d[key] ELSE default

\* ------------------------------------------------------------ state
VARIABLES
    now,        \* the wall clock, in ticks
    alive,      \* ReportManager instances whose scheduler thread is running
    armed,      \* armed[i]: the jobs of instance i's scheduler, id -> job
    file,       \* schedules.json
    calls,      \* calls[t]: the schedule_report / remove_schedule call of thread t
    firing,     \* the send_scheduled_report run in flight, if any
    cancelled,  \* history: ids for which remove_schedule returned, not re-added since
    faults,     \* history: I/O failures injected so far
    ncalls,     \* history: calls begun so far
    probe       \* a question put to the trigger or to the checks of
                \* schedule_report, and the answers so far

vars == <<now, alive, armed, file, calls, firing, cancelled, faults, ncalls, probe>>

\* strftime('%Y%m%d%H%M%S'): the clock cut to whole seconds
Strftime(t) == t \div TicksPerSecond
\* f"report_{dataset_name}_{datetime.now().strftime('%Y%m%d%H%M%S')}"
JobIdOf(dataset_name, t) == <<"report", dataset_name, Strftime(t)>>
NoJob == <<"report", "", 0>>
JobIds == {JobIdOf(d, t) : d \in Datasets, t \in 0..MaxTick}

\* schedules.json: absent, a complete JSON mapping, or opened for writing and
\* not (yet) completely written
NoFile == [kind |-> "missing", data |-> EmptyMap]
Truncated == [kind |-> "partial", data |-> EmptyMap]
Written(schedules) == [kind |-> "valid", data |-> schedules]

\* load_schedules: any failure to open or parse yields {}
LoadSchedules(f) == IF f.kind = "valid" THEN f.data ELSE EmptyMap

\* get_active_schedules returns what load_schedules returns
GetActiveSchedules(f) == LoadSchedules(f)

\* A call of a caller thread: pc "idle" (no call), a position inside the call,
\* or "returned" (the call has ended with `result` and its caller has not yet
\* gone on).
IdleCall ==
    [op |-> "idle", pc |-> "idle", inst |-> 0, job_id |-> NoJob,
     dataset_name |-> "", email_config |-> EmptyMap, schedule_config |-> EmptyMap,
     schedules |-> EmptyMap, result |-> "none", io_error |-> FALSE,
     pre_in_file |-> FALSE, pre_armed |-> FALSE, superseded |-> FALSE]

\* The call c ended with `result`; its locals are gone.
Ended(c, result) ==
    [c EXCEPT !.pc = "returned", !.result = result, !.schedules = EmptyMap,
              !.dataset_name = IF result = "job_id" THEN "" ELSE @,
              !.email_config = IF result = "job_id" THEN EmptyMap ELSE @,
              !.schedule_config = IF result = "job_id" THEN EmptyMap ELSE @]

NoFiring ==
    [phase |-> "none", inst |-> 0, job_id |-> NoJob, dataset_name |-> "",
     email_config |-> EmptyMap, attempted |-> <<>>, delivered |-> <<>>,
     rendered |-> FALSE, status |-> "none"]

\* No question is being put.
NoInstant == [year |-> 0, month |-> 0, day |-> 0, second_of_day |-> 0]
NoProbe ==
    [fn |-> "none", phase |-> "none", email_config |-> EmptyMap,
     schedule_config |-> EmptyMap, after |-> NoInstant, fire |-> NoInstant,
     rearmed |-> NoInstant, again |-> NoInstant, result |-> "none",
     loaded |-> EmptyMap]

Init ==
    /\ now = 0
    /\ alive = {}
    /\ armed = [i \in Inst |-> EmptyMap]
    /\ file = NoFile
    /\ calls = [t \in Thread |-> IdleCall]
    /\ firing = NoFiring
    /\ cancelled = {}
    /\ faults = 0
    /\ ncalls = 0
    /\ probe = NoProbe

\* A call runs on the first caller thread that is not inside a call.
ThreadFree(t) ==
    /\ calls[t].pc = "idle"
    /\ \A u \in 1..(t - 1) : calls[u].pc # "idle"

\* An injected I/O failure, within the bound
MayFail(fault) == fault => faults < MaxFaults
Faults(fault) == IF fault THEN faults + 1 ELSE faults

\* ------------------------------------------------------------ __init__
\* __init__ calls load_schedules() and drops what it returns: the new
\* BackgroundScheduler starts with no job.
InitArmed(loaded) == EmptyMap

\* ReportManager(): instances are numbered in the order of their creation.
NewManager(i) ==
    /\ i = Cardinality(alive) + 1
    /\ alive' = alive \cup {i}
    /\ armed' = [armed EXCEPT ![i] = InitArmed(LoadSchedules(file))]
    /\ UNCHANGED <<now, file, calls, firing, cancelled, faults, ncalls, probe>>

\* ------------------------------------------------------------ schedule_report
\* CronTrigger(...) raises ValueError for a field outside its range
CronFieldsOk(s) ==
    /\ Get(s, "hour", 0) \in 0..23
    /\ Get(s, "minute", 0) \in 0..59
    /\ s.type = "weekly" => Get(s, "day", 0) \in 0..6
    /\ s.type = "monthly" => Get(s, "day", 1) \in 1..31

\* CronTrigger as schedule_report builds it for each schedule type. day and
\* day_of_week are the values the field admits: every value for a field that
\* is not given ('*'), the one value for a field that is given.
CronTrigger(s) ==
    CASE s.type = "daily" ->
           [day |-> 1..31, day_of_week |-> 0..6,
            hour |-> Get(s, "hour", 0), minute |-> Get(s, "minute", 0)]
      [] s.type = "weekly" ->
           [day |-> 1..31, day_of_week |-> {Get(s, "day", 0)},
            hour |-> Get(s, "hour", 0), minute |-> Get(s, "minute", 0)]
      [] s.type = "monthly" ->
           [day |-> {Get(s, "day", 1)}, day_of_week |-> 0..6,
            hour |-> Get(s, "hour", 0), minute |-> Get(s, "minute", 0)]

\* ------------------------------------------------------------ trigger times
\* An instant of local time is a calendar date and the seconds since midnight
\* (no zone, no daylight-saving shift).
Instant(y, m, d, sod) == [year |-> y, month |-> m, day |-> d, second_of_day |-> sod]
SecondOfDay(h, m, sec) == (h * 60 + m) * 60 + sec
At(t, sod) == [t EXCEPT !.second_of_day = sod]

IsLeap(y) == (y % 4 = 0 /\ y % 100 # 0) \/ y % 400 = 0
DaysInMonth(y, m) ==
    IF m = 2 THEN (IF IsLeap(y) THEN 29 ELSE 28)
    ELSE IF m \in {4, 6, 9, 11} THEN 30 ELSE 31

\* datetime.weekday(), the numbering of the trigger's day_of_week field:
\* Monday is 0
MonthOffset == <<0, 3, 2, 5, 0, 3, 5, 1, 4, 6, 2, 4>>
SundayZero(t) ==
    LET y == IF t.month < 3 THEN t.year - 1 ELSE t.year
    IN (y + (y \div 4) - (y \div 100) + (y \div 400) + MonthOffset[t.month] + t.day) % 7
\* the numbering of crontab: Sunday is 0
Weekday_SundayIsZero(t) == SundayZero(t)
Weekday(t) == (SundayZero(t) + 6) % 7

\* Midnight of the day after t's
NextDay(t) ==
    IF t.day < DaysInMonth(t.year, t.month) THEN Instant(t.year, t.month, t.day + 1, 0)
    ELSE IF t.month < 12 THEN Instant(t.year, t.month + 1, 1, 0)
    ELSE Instant(t.year + 1, 1, 1, 0)

Before(t1, t2) ==
    \/ t1.year < t2.year
    \/ t1.year = t2.year /\ t1.month < t2.month
    \/ t1.year = t2.year /\ t1.month = t2.month /\ t1.day < t2.day
    \/ /\ t1.year = t2.year /\ t1.month = t2.month /\ t1.day = t2.day
       /\ t1.second_of_day < t2.second_of_day

\* The date of t is one the trigger's day and day_of_week fields admit. A day
\* of month the month does not have is no date: no t has it.
DayMatches(trigger, t) ==
    /\ t.day \in trigger.day
    /\ Weekday(t) \in trigger.day_of_week

\* hour and minute as given, second 0 (the default of a field below the last
\* one given)
Slot(trigger) == SecondOfDay(trigger.hour, trigger.minute, 0)

RECURSIVE NextMatchingDay(_, _)
NextMatchingDay(trigger, t) ==
    IF DayMatches(trigger, t) THEN t ELSE NextMatchingDay(trigger, NextDay(t))

\* The first instant at or after start_date that every field of the trigger
\* admits.
NextFrom(trigger, start_date) ==
    IF DayMatches(trigger, start_date) /\ start_date.second_of_day <= Slot(trigger)
    THEN At(start_date, Slot(trigger))
    ELSE At(NextMatchingDay(trigger, NextDay(start_date)), Slot(trigger))

\* get_next_fire_time(None, now), as for a job just added
FirstFireTime(trigger, t) == NextFrom(trigger, t)

\* a search that starts at the run's own instant
RearmStart_SameInstant(previous_fire_time) == previous_fire_time

\* The start of the search after a run at previous_fire_time: the first whole
\* second after it
RearmStart(previous_fire_time) ==
    IF previous_fire_time.second_of_day < SecondOfDay(23, 59, 59)
    THEN At(previous_fire_time, previous_fire_time.second_of_day + 1)
    ELSE NextDay(previous_fire_time)
\* get_next_fire_time(previous_fire_time, now), as the scheduler calls it
\* after it has run the job at previous_fire_time
NextFireTimeAfterRun(trigger, previous_fire_time) ==
    NextFrom(trigger, RearmStart(previous_fire_time))

\* schedule_report without its check of the recipients list
ValidationError_NoRecipientsCheck(e, s) ==
    IF ~(required_email_fields \subseteq DOMAIN e) THEN "missing_email_fields"
    ELSE IF "type" \notin DOMAIN s THEN "no_schedule_type"
    ELSE IF s.type \notin {"daily", "weekly", "monthly"} THEN "invalid_schedule_type"
    ELSE IF ~CronFieldsOk(s) THEN "bad_trigger"
    ELSE "none"

\* The checks of schedule_report in the order the code makes them; "none" when
\* the input passes them all.
ValidationError(e, s) ==
    IF ~(required_email_fields \subseteq DOMAIN e) THEN "missing_email_fields"
    ELSE IF e.recipients = <<>> THEN "no_recipients"
    ELSE IF "type" \notin DOMAIN s THEN "no_schedule_type"
    ELSE IF s.type \notin {"daily", "weekly", "monthly"} THEN "invalid_schedule_type"
    ELSE IF ~CronFieldsOk(s) THEN "bad_trigger"
    ELSE "none"

\* scheduler.add_job(send_scheduled_report, trigger, args, id, replace_existing=True)
AddJob(jobs, job_id, trigger, dataset_name, email_config) ==
    Put(jobs, job_id,
        [trigger |-> trigger, dataset_name |-> dataset_name,
         email_config |-> email_config])

\* schedule_data of save_schedule
ScheduleData(job_id, dataset_name, email_config, schedule_config) ==
    [job_id |-> job_id, dataset_name |-> dataset_name,
     email_config |-> email_config, schedule_config |-> schedule_config]

\* History: a remove_schedule call in progress whose job id is registered anew
\* no longer counts as the cancellation of the job now armed.
Supersede(c, job_id) ==
    IF c.op = "remove" /\ c.job_id = job_id /\ c.pc # "returned"
    THEN [c EXCEPT !.superseded = TRUE]
    ELSE c

\* History: the ids cancelled once the remove_schedule call c has returned. The
\* call cancels a job that existed when it was made: listed in schedules.json
\* or armed in the instance.
Cancelled(c) ==
    IF (c.pre_in_file \/ c.pre_armed) /\ ~c.superseded
    THEN cancelled \cup {c.job_id}
    ELSE cancelled

\* schedule_report up to its call of save_schedule: the validation, the job id,
\* the trigger and add_job. A rejected input raises here.
ScheduleReport(t, i, dataset_name, email_config, schedule_config) ==
    /\ ThreadFree(t)
    /\ i \in alive
    /\ ncalls < MaxCalls
    /\ ncalls' = ncalls + 1
    /\ LET c == [IdleCall EXCEPT !.op = "schedule", !.inst = i,
                                 !.dataset_name = dataset_name,
                                 !.email_config = email_config,
                                 !.schedule_config = schedule_config]
           err == ValidationError(email_config, schedule_config)
           job_id == JobIdOf(dataset_name, now)
       IN IF err # "none"
          THEN /\ calls' = [calls EXCEPT ![t] = Ended(c, err)]
               /\ UNCHANGED <<armed, cancelled>>
          ELSE /\ armed' = [armed EXCEPT ![i] =
                              AddJob(armed[i], job_id, CronTrigger(schedule_config),
                                     dataset_name, email_config)]
               /\ calls' = [u \in Thread |->
                              IF u = t
                              THEN [c EXCEPT !.pc = "save_load", !.job_id = job_id]
                              ELSE Supersede(calls[u], job_id)]
               /\ cancelled' = cancelled \ {job_id}
    /\ UNCHANGED <<now, alive, file, firing, faults, probe>>

\* load_schedules without its except clause: a file that cannot be read or
\* parsed ends schedule_report with the exception.
SaveLoad_NoExcept(t, fault) ==
    /\ calls[t].pc = "save_load"
    /\ MayFail(fault)
    /\ faults' = Faults(fault)
    /\ LET c == calls[t]
       IN IF fault \/ file.kind # "valid"
          THEN calls' = [calls EXCEPT ![t] = Ended([c EXCEPT !.io_error = TRUE], "io_error")]
          ELSE calls' = [calls EXCEPT ![t] =
                           [c EXCEPT !.pc = "save_open",
                                     !.schedules =
                                         Put(LoadSchedules(file), c.job_id,
                                             ScheduleData(c.job_id, c.dataset_name,
                                                          c.email_config,
                                                          c.schedule_config))]]
    /\ UNCHANGED <<now, alive, armed, file, firing, cancelled, ncalls, probe>>

\* save_schedule: schedules = self.load_schedules(); schedules[job_id] = schedule_data
SaveLoad(t, fault) ==
    /\ calls[t].pc = "save_load"
    /\ MayFail(fault)
    /\ faults' = Faults(fault)
    /\ LET c == calls[t]
           loaded == IF fault THEN EmptyMap ELSE LoadSchedules(file)
       IN calls' = [calls EXCEPT ![t] =
                      [c EXCEPT !.pc = "save_open",
                                !.io_error = c.io_error \/ fault,
                                !.schedules =
                                    Put(loaded, c.job_id,
                                        ScheduleData(c.job_id, c.dataset_name,
                                                     c.email_config,
                                                     c.schedule_config))]]
    /\ UNCHANGED <<now, alive, armed, file, firing, cancelled, ncalls, probe>>

\* save_schedule: open('schedules.json', 'w') truncates the file, or raises and
\* leaves it; the exception leaves schedule_report.
SaveOpen(t, fault) ==
    /\ calls[t].pc = "save_open"
    /\ MayFail(fault)
    /\ faults' = Faults(fault)
    /\ IF fault
       THEN /\ calls' = [calls EXCEPT ![t] =
                           Ended([@ EXCEPT !.io_error = TRUE], "io_error")]
            /\ file' = file
       ELSE /\ calls' = [calls EXCEPT ![t] = [@ EXCEPT !.pc = "save_dump"]]
            /\ file' = Truncated
    /\ UNCHANGED <<now, alive, armed, firing, cancelled, ncalls, probe>>

\* save_schedule: json.dump(schedules, f) and the close write the complete
\* mapping, or raise and leave what was written so far; then return job_id.
SaveDump(t, fault) ==
    /\ calls[t].pc = "save_dump"
    /\ MayFail(fault)
    /\ faults' = Faults(fault)
    /\ IF fault
       THEN /\ calls' = [calls EXCEPT ![t] =
                           Ended([@ EXCEPT !.io_error = TRUE], "io_error")]
            /\ file' = Truncated
       ELSE /\ calls' = [calls EXCEPT ![t] = Ended(@, "job_id")]
            /\ file' = Written(calls[t].schedules)
    /\ UNCHANGED <<now, alive, armed, firing, cancelled, ncalls, probe>>

\* remove_schedule without its except clause: the JobLookupError of
\* remove_job leaves the function.
RemoveSchedule_NoExcept(t, i, job_id) ==
    /\ ThreadFree(t)
    /\ i \in alive
    /\ ncalls < MaxCalls
    /\ ncalls' = ncalls + 1
    /\ LET c == [IdleCall EXCEPT !.op = "remove", !.inst = i, !.job_id = job_id,
                                 !.pre_in_file = job_id \in DOMAIN LoadSchedules(file),
                                 !.pre_armed = job_id \in DOMAIN armed[i]]
       IN IF job_id \notin DOMAIN armed[i]
          THEN /\ calls' = [calls EXCEPT ![t] = Ended(c, "raised")]
               /\ cancelled' = Cancelled(c)
               /\ armed' = armed
          ELSE /\ calls' = [calls EXCEPT ![t] = [c EXCEPT !.pc = "rm_load"]]
               /\ armed' = [armed EXCEPT ![i] = Del(armed[i], job_id)]
               /\ cancelled' = cancelled
    /\ UNCHANGED <<now, alive, file, firing, faults, probe>>

\* remove_schedule going on to the file when remove_job does not find the job
RemoveSchedule_LookupErrorIgnored(t, i, job_id) ==
    /\ ThreadFree(t)
    /\ i \in alive
    /\ ncalls < MaxCalls
    /\ ncalls' = ncalls + 1
    /\ LET c == [IdleCall EXCEPT !.op = "remove", !.inst = i, !.job_id = job_id,
                                 !.pre_in_file = job_id \in DOMAIN LoadSchedules(file),
                                 !.pre_armed = job_id \in DOMAIN armed[i]]
       IN /\ calls' = [calls EXCEPT ![t] = [c EXCEPT !.pc = "rm_load"]]
          /\ armed' = [armed EXCEPT ![i] = Del(armed[i], job_id)]
          /\ cancelled' = cancelled
    /\ UNCHANGED <<now, alive, file, firing, faults, probe>>

\* ------------------------------------------------------------ remove_schedule
\* remove_schedule is called: scheduler.remove_job(job_id) raises JobLookupError
\* for an id the instance's scheduler does not hold, and the bare except
\* returns False.
RemoveSchedule(t, i, job_id) ==
    /\ ThreadFree(t)
    /\ i \in alive
    /\ ncalls < MaxCalls
    /\ ncalls' = ncalls + 1
    /\ LET c == [IdleCall EXCEPT !.op = "remove", !.inst = i, !.job_id = job_id,
                                 !.pre_in_file = job_id \in DOMAIN LoadSchedules(file),
                                 !.pre_armed = job_id \in DOMAIN armed[i]]
       IN IF job_id \notin DOMAIN armed[i]
          THEN /\ calls' = [calls EXCEPT ![t] = Ended(c, "False")]
               /\ cancelled' = Cancelled(c)
               /\ armed' = armed
          ELSE /\ calls' = [calls EXCEPT ![t] = [c EXCEPT !.pc = "rm_load"]]
               /\ armed' = [armed EXCEPT ![i] = Del(armed[i], job_id)]
               /\ cancelled' = cancelled
    /\ UNCHANGED <<now, alive, file, firing, faults, probe>>

\* remove_schedule that leaves schedules.json alone
RemoveLoad_LeavesFile(t, fault) ==
    /\ calls[t].pc = "rm_load"
    /\ MayFail(fault)
    /\ faults' = Faults(fault)
    /\ calls' = [calls EXCEPT ![t] = Ended([@ EXCEPT !.io_error = @ \/ fault], "True")]
    /\ cancelled' = Cancelled(calls[t])
    /\ UNCHANGED <<now, alive, armed, file, firing, ncalls, probe>>

\* remove_schedule: schedules = self.load_schedules(); if job_id in schedules:
\* del schedules[job_id] and go on to rewrite the file; otherwise return True.
RemoveLoad(t, fault) ==
    /\ calls[t].pc = "rm_load"
    /\ MayFail(fault)
    /\ faults' = Faults(fault)
    /\ LET c == [calls[t] EXCEPT !.io_error = @ \/ fault]
           loaded == IF fault THEN EmptyMap ELSE LoadSchedules(file)
       IN IF c.job_id \in DOMAIN loaded
          THEN /\ calls' = [calls EXCEPT ![t] =
                              [c EXCEPT !.pc = "rm_open",
                                        !.schedules = Del(loaded, c.job_id)]]
               /\ cancelled' = cancelled
          ELSE /\ calls' = [calls EXCEPT ![t] = Ended(c, "True")]
               /\ cancelled' = Cancelled(c)
    /\ UNCHANGED <<now, alive, armed, file, firing, ncalls, probe>>

\* remove_schedule: open('schedules.json', 'w'); an exception returns False.
RemoveOpen(t, fault) ==
    /\ calls[t].pc = "rm_open"
    /\ MayFail(fault)
    /\ faults' = Faults(fault)
    /\ IF fault
       THEN /\ calls' = [calls EXCEPT ![t] =
                           Ended([@ EXCEPT !.io_error = TRUE], "False")]
            /\ file' = file
            /\ cancelled' = Cancelled(calls[t])
       ELSE /\ calls' = [calls EXCEPT ![t] = [@ EXCEPT !.pc = "rm_dump"]]
            /\ file' = Truncated
            /\ cancelled' = cancelled
    /\ UNCHANGED <<now, alive, armed, firing, ncalls, probe>>

\* remove_schedule: json.dump(schedules, f), the close, return True; an
\* exception returns False.
RemoveDump(t, fault) ==
    /\ calls[t].pc = "rm_dump"
    /\ MayFail(fault)
    /\ faults' = Faults(fault)
    /\ IF fault
       THEN /\ calls' = [calls EXCEPT ![t] =
                           Ended([@ EXCEPT !.io_error = TRUE], "False")]
            /\ file' = Truncated
       ELSE /\ calls' = [calls EXCEPT ![t] = Ended(@, "True")]
            /\ file' = Written(calls[t].schedules)
    /\ cancelled' = Cancelled(calls[t])
    /\ UNCHANGED <<now, alive, armed, firing, ncalls, probe>>

\* The caller of an ended call goes on.
Return(t) ==
    /\ calls[t].pc = "returned"
    /\ calls' = [calls EXCEPT ![t] = IdleCall]
    /\ UNCHANGED <<now, alive, armed, file, firing, cancelled, faults, ncalls, probe>>

\* ------------------------------------------------------------ send_scheduled_report
\* The recipients loop outside any try: the exception of an SMTP session
\* leaves send_scheduled_report and reaches the scheduler.
SendStep_NoExcept(f, ok) ==
    LET r == f.email_config.recipients[Len(f.attempted) + 1]
        att == Append(f.attempted, r)
    IN IF ~ok
       THEN [f EXCEPT !.attempted = att, !.phase = "done", !.status = "raised"]
       ELSE IF Len(att) = Len(f.email_config.recipients)
       THEN [f EXCEPT !.attempted = att, !.delivered = Append(@, r),
                      !.phase = "done", !.status = "sent"]
       ELSE [f EXCEPT !.attempted = att, !.delivered = Append(@, r)]

\* A recipients loop with a try of its own around each session: a failure
\* is noted and the loop goes on to the next recipient.
SendStep_ContinuesAfterFailure(f, ok) ==
    LET r == f.email_config.recipients[Len(f.attempted) + 1]
        att == Append(f.attempted, r)
        del == IF ok THEN Append(f.delivered, r) ELSE f.delivered
    IN IF Len(att) = Len(f.email_config.recipients)
       THEN [f EXCEPT !.attempted = att, !.delivered = del, !.phase = "done",
                      !.status = IF del = att THEN "sent" ELSE "failed"]
       ELSE [f EXCEPT !.attempted = att, !.delivered = del]

\* The recipients loop sits inside the try of the whole function: the first
\* exception, of whichever recipient, leaves the loop for the except clause.
SendStep(f, ok) ==
    LET r == f.email_config.recipients[Len(f.attempted) + 1]
        att == Append(f.attempted, r)
    IN IF ~ok
       THEN [f EXCEPT !.attempted = att, !.phase = "done", !.status = "failed"]
       ELSE IF Len(att) = Len(f.email_config.recipients)
       THEN [f EXCEPT !.attempted = att, !.delivered = Append(@, r),
                      !.phase = "done", !.status = "sent"]
       ELSE [f EXCEPT !.attempted = att, !.delivered = Append(@, r)]

\* send_scheduled_report with the load and the generation outside the try: a
\* failure there does not keep the recipients loop from running
RenderStep_FailureNotAborting(f, ok) ==
    IF f.email_config.recipients = <<>>
    THEN [f EXCEPT !.rendered = ok, !.phase = "done",
                   !.status = IF ok THEN "sent" ELSE "failed"]
    ELSE [f EXCEPT !.rendered = ok, !.phase = "send"]

\* Loading the dataset and generating the report: any exception is caught by
\* the except clause, which prints and returns.
RenderStep(f, ok) ==
    IF ~ok
    THEN [f EXCEPT !.phase = "done", !.status = "failed"]
    ELSE IF f.email_config.recipients = <<>>
    THEN [f EXCEPT !.rendered = TRUE, !.phase = "done", !.status = "sent"]
    ELSE [f EXCEPT !.rendered = TRUE, !.phase = "send"]

\* The scheduler of instance i runs a job it holds, with the args add_job was
\* given: send_scheduled_report up to the recipients loop. When the cron
\* trigger makes the job due is left open: an armed job may become due at any
\* moment.
Fire(i, job_id, ok) ==
    /\ firing.phase = "none"
    /\ i \in alive
    /\ job_id \in DOMAIN armed[i]
    /\ firing' = RenderStep(
                    [NoFiring EXCEPT !.inst = i, !.job_id = job_id,
                                     !.dataset_name = armed[i][job_id].dataset_name,
                                     !.email_config = armed[i][job_id].email_config],
                    ok)
    /\ UNCHANGED <<now, alive, armed, file, calls, cancelled, faults, ncalls, probe>>

\* One pass of the recipients loop: the SMTP session of the next recipient
FiringSend(ok) ==
    /\ firing.phase = "send"
    /\ firing' = SendStep(firing, ok)
    /\ UNCHANGED <<now, alive, armed, file, calls, cancelled, faults, ncalls, probe>>

\* A scheduler that drops a job whose run has failed
FiringEnd_DisarmsFailedJob ==
    /\ firing.phase = "done"
    /\ firing' = NoFiring
    /\ armed' = IF firing.status = "failed"
                THEN [armed EXCEPT ![firing.inst] = Del(@, firing.job_id)]
                ELSE armed
    /\ UNCHANGED <<now, alive, file, calls, cancelled, faults, ncalls, probe>>

\* send_scheduled_report returns to the scheduler
FiringEnd ==
    /\ firing.phase = "done"
    /\ firing' = NoFiring
    /\ UNCHANGED <<now, alive, armed, file, calls, cancelled, faults, ncalls, probe>>

\* ------------------------------------------------------------ environment
Tick ==
    /\ now < MaxTick
    /\ now' = now + 1
    /\ UNCHANGED <<alive, armed, file, calls, firing, cancelled, faults, ncalls, probe>>

\* The process is killed: every scheduler, call and firing in it is gone; the
\* file stays as it is.
Crash ==
    /\ alive # {}
    /\ alive' = {}
    /\ armed' = [i \in Inst |-> EmptyMap]
    /\ calls' = [t \in Thread |-> IdleCall]
    /\ firing' = NoFiring
    /\ UNCHANGED <<now, file, cancelled, faults, ncalls, probe>>

Next ==
    \/ \E i \in Inst : NewManager(i)
    \/ \E t \in Thread, i \in Inst, d \in Datasets, r \in Requests :
          ScheduleReport(t, i, d, r[1], r[2])
    \/ \E t \in Thread, fault \in BOOLEAN : SaveLoad(t, fault)
    \/ \E t \in Thread, fault \in BOOLEAN : SaveOpen(t, fault)
    \/ \E t \in Thread, fault \in BOOLEAN : SaveDump(t, fault)
    \/ \E t \in Thread, i \in Inst, j \in JobIds : RemoveSchedule(t, i, j)
    \/ \E t \in Thread, fault \in BOOLEAN : RemoveLoad(t, fault)
    \/ \E t \in Thread, fault \in BOOLEAN : RemoveOpen(t, fault)
    \/ \E t \in Thread, fault \in BOOLEAN : RemoveDump(t, fault)
    \/ \E t \in Thread : Return(t)
    \/ \E i \in Inst, j \in JobIds, ok \in BOOLEAN : Fire(i, j, ok)
    \/ \E ok \in BOOLEAN : FiringSend(ok)
    \/ FiringEnd
    \/ Tick
    \/ Crash

Spec == Init /\ [][Next]_vars
\* ------------------------------------------------------------ firings whose SMTP server may not answer
\* smtplib.SMTP(server, port) is given no timeout: the session of the next
\* recipient waits for an answer that does not come, and nothing ends the
\* wait.
FiringBlocks ==
    /\ firing.phase = "send"
    /\ firing' = [firing EXCEPT
                     !.attempted = Append(@, firing.email_config.recipients[Len(@) + 1]),
                     !.phase = "blocked"]
    /\ UNCHANGED <<now, alive, armed, file, calls, cancelled, faults, ncalls, probe>>

\* Jobs are scheduled and fired; no job is removed and the process is not
\* killed.
NextLive ==
    \/ \E i \in Inst : NewManager(i)
    \/ \E t \in Thread, i \in Inst, d \in Datasets, r \in Requests :
          ScheduleReport(t, i, d, r[1], r[2])
    \/ \E t \in Thread, fault \in BOOLEAN : SaveLoad(t, fault)
    \/ \E t \in Thread, fault \in BOOLEAN : SaveOpen(t, fault)
    \/ \E t \in Thread, fault \in BOOLEAN : SaveDump(t, fault)
    \/ \E t \in Thread : Return(t)
    \/ \E i \in Inst, j \in JobIds, ok \in BOOLEAN : Fire(i, j, ok)
    \/ \E ok \in BOOLEAN : FiringSend(ok)
    \/ FiringBlocks
    \/ FiringEnd
    \/ Tick

\* The scheduler's worker thread keeps running: a step of a firing that can be
\* taken is taken.
FairFiring ==
    /\ WF_vars(\E ok \in BOOLEAN : FiringSend(ok))
    /\ WF_vars(FiringEnd)

SpecLive == Init /\ [][NextLive]_vars /\ FairFiring

\* ------------------------------------------------------------ one ReportManager by itself
\* One ReportManager, made when there is no schedules.json, called from one
\* thread, one call after the other, with no I/O failure and no kill; the
\* count of calls leaves room for SingleCalls calls.
InitSingle ==
    /\ now = 0
    /\ alive = {}
    /\ armed = [i \in Inst |-> EmptyMap]
    /\ file = NoFile
    /\ calls = [t \in Thread |-> IdleCall]
    /\ firing = NoFiring
    /\ cancelled = {}
    /\ faults = 0
    /\ ncalls = MaxCalls - SingleCalls
    /\ probe = NoProbe

NextSingle ==
    \/ NewManager(1)
    \/ \E d \in Datasets, r \in Requests : ScheduleReport(1, 1, d, r[1], r[2])
    \/ SaveLoad(1, FALSE)
    \/ SaveOpen(1, FALSE)
    \/ SaveDump(1, FALSE)
    \/ \E j \in JobIds : RemoveSchedule(1, 1, j)
    \/ RemoveLoad(1, FALSE)
    \/ RemoveOpen(1, FALSE)
    \/ RemoveDump(1, FALSE)
    \/ Return(1)
    \/ Tick

SpecSingle == InitSingle /\ [][NextSingle]_vars

\* ------------------------------------------------------------ the trigger and the checks, by themselves
\* The schedule page's choices of weekday and the index it passes as 'day':
\* [...].index(weekday.lower())
WeekdayChoices ==
    <<"Monday", "Tuesday", "Wednesday", "Thursday", "Friday", "Saturday", "Sunday">>
Lower(w) ==
    CASE w = "Monday" -> "monday" [] w = "Tuesday" -> "tuesday"
      [] w = "Wednesday" -> "wednesday" [] w = "Thursday" -> "thursday"
      [] w = "Friday" -> "friday" [] w = "Saturday" -> "saturday"
      [] w = "Sunday" -> "sunday"
WeekdayIndex(w) ==
    LET names == <<"monday", "tuesday", "wednesday", "thursday", "friday",
                   "saturday", "sunday">>
    IN (CHOOSE k \in 1..Len(names) : names[k] = Lower(w)) - 1

\* schedule_config as the page builds it for each schedule type
DailyConfig(hour, minute) == [type |-> "daily", hour |-> hour, minute |-> minute]
WeeklyConfig(weekday, hour, minute) ==
    [type |-> "weekly", day |-> WeekdayIndex(weekday), hour |-> hour, minute |-> minute]
MonthlyConfig(day, hour, minute) ==
    [type |-> "monthly", day |-> day, hour |-> hour, minute |-> minute]

\* The schedules whose fire times are asked for
ProbeHours == {0, 8, 23}
ProbeMinutes == {0, 30, 59}
ProbeDays == {1, 28, 29, 30, 31}
TriggerSchedules ==
    {DailyConfig(h, m) : h \in ProbeHours, m \in ProbeMinutes}
    \cup {WeeklyConfig(WeekdayChoices[k], 8, 0) : k \in 1..Len(WeekdayChoices)}
    \cup {MonthlyConfig(d, 8, 0) : d \in ProbeDays}

\* The instants they are asked for: a whole week (2024-01-01 is a Monday),
\* ends of months of each length, leap and common February, the end of a
\* year; at midnight, at, just after and an hour after 08:00, and in the last
\* second of the day.
ProbeDates ==
    {Instant(2024, 1, d, 0) : d \in 1..7}
    \cup {Instant(2024, 1, 31, 0), Instant(2024, 2, 10, 0), Instant(2024, 2, 29, 0),
          Instant(2024, 4, 30, 0), Instant(2024, 12, 31, 0),
          Instant(2025, 2, 10, 0), Instant(2025, 2, 28, 0)}
ProbeSeconds ==
    {0, SecondOfDay(8, 0, 0), SecondOfDay(8, 0, 1), SecondOfDay(9, 0, 0),
     SecondOfDay(23, 59, 59)}
ProbeInstants == {At(d, sod) : d \in ProbeDates, sod \in ProbeSeconds}

\* The inputs whose checks are asked for: each defect of an email
\* configuration and of a schedule configuration, and none
EmailBadFormat == [EmailOne EXCEPT !.format = "XLSX"]
ProbeEmails == EmailConfigs \cup {EmailBadFormat}
ProbeSchedules ==
    ScheduleConfigs
    \cup {DailyConfig(23, 59), DailyConfig(8, 60), DailyConfig(0 - 1, 0)}
    \cup {WeeklyConfig("Sunday", 0, 0), [type |-> "weekly", day |-> 7, hour |-> 8, minute |-> 0]}
    \cup {MonthlyConfig(d, 8, 0) : d \in {0, 1, 31, 32}}

\* ---- json.dump / json.load of schedules.json
\* JSON text is modelled by its structure: an object is the sequence of its
\* members <<key, value>> in the order the dict holds them, a value is
\* <<kind, content>> with the kind JSON can tell apart.
JsonNumber(n) == <<"number", n>>
JsonString(str) == <<"string", str>>
JsonArrayOfStrings(seq) == <<"array", [k \in 1..Len(seq) |-> JsonString(seq[k])]>>
JsonObject(members) == <<"object", members>>

\* The members of dict d for the keys of `order` it has, in that order; kind
\* gives the encoder of each key's value.
RECURSIVE JsonMembers(_, _, _)
JsonMembers(d, order, encode) ==
    IF order = <<>> THEN <<>>
    ELSE LET k == Head(order)
             rest == JsonMembers(d, Tail(order), encode)
         IN IF k \in DOMAIN d THEN <<(<<k, encode[k][d[k]]>>)>> \o rest ELSE rest

\* email_config in the key order the page builds it
EmailKeys ==
    <<"smtp_server", "smtp_port", "sender_email", "sender_password",
      "recipients", "format">>
JsonEmailConfig(e) ==
    JsonObject(JsonMembers(e, EmailKeys,
        [k \in {"smtp_server", "sender_email", "sender_password", "format"}
            |-> [v \in {e[f] : f \in {"smtp_server", "sender_email", "sender_password", "format"}
                                       \cap DOMAIN e} |-> JsonString(v)]]
        @@ [k \in {"smtp_port"} |-> [v \in {e.smtp_port} |-> JsonNumber(v)]]
        @@ [k \in {"recipients"} |-> [v \in {e.recipients} |-> JsonArrayOfStrings(v)]]))

\* schedule_config in the key order the page builds it
ScheduleKeys == <<"type", "day", "hour", "minute">>
JsonScheduleConfig(s) ==
    JsonObject(JsonMembers(s, ScheduleKeys,
        [k \in {"type"} |-> [v \in {s.type} |-> JsonString(v)]]
        @@ [k \in {"day", "hour", "minute"}
              |-> [v \in {s[f] : f \in {"day", "hour", "minute"} \cap DOMAIN s}
                     |-> JsonNumber(v)]]))

\* schedule_data in the key order save_schedule builds it; the job id is kept
\* as the model has it
JsonScheduleData(d) ==
    JsonObject(<< <<"job_id", <<"string", d.job_id>> >>,
                  <<"dataset_name", JsonString(d.dataset_name)>>,
                  <<"email_config", JsonEmailConfig(d.email_config)>>,
                  <<"schedule_config", JsonScheduleConfig(d.schedule_config)>> >>)

\* json.dump(schedules, f) for a registry of one job
JsonDump(job_id, schedule_data) ==
    JsonObject(<< <<job_id, JsonScheduleData(schedule_data)>> >>)

\* json.load: objects become dicts, arrays lists, numbers and strings
\* themselves
RECURSIVE JsonLoad(_)
JsonLoad(j) ==
    CASE j[1] = "number" -> j[2]
      [] j[1] = "string" -> j[2]
      [] j[1] = "array" -> [k \in 1..Len(j[2]) |-> JsonLoad(j[2][k])]
      [] j[1] = "object" ->
           [key \in {j[2][k][1] : k \in 1..Len(j[2])} |->
               JsonLoad(j[2][CHOOSE k \in 1..Len(j[2]) : j[2][k][1] = key][2])]

\* The accepted requests whose registry entry is written and read back
RoundTripQuestions ==
    {[NoProbe EXCEPT !.fn = "round_trip", !.phase = "asked",
                     !.email_config = e, !.schedule_config = s] :
        e \in {EmailOne, EmailTwo},
        s \in TriggerSchedules}

FireTimeQuestions ==
    {[NoProbe EXCEPT !.fn = "next_fire_time", !.phase = "asked",
                     !.schedule_config = s, !.after = t] :
        s \in TriggerSchedules, t \in ProbeInstants}
ValidationQuestions ==
    {[NoProbe EXCEPT !.fn = "validate", !.phase = "asked",
                     !.email_config = e, !.schedule_config = s] :
        e \in ProbeEmails, s \in ProbeSchedules}

InitFunctions ==
    /\ now = 0
    /\ alive = {}
    /\ armed = [i \in Inst |-> EmptyMap]
    /\ file = NoFile
    /\ calls = [t \in Thread |-> IdleCall]
    /\ firing = NoFiring
    /\ cancelled = {}
    /\ faults = 0
    /\ ncalls = 0
    /\ probe \in FireTimeQuestions \cup ValidationQuestions \cup RoundTripQuestions

\* The trigger of a job just added is asked for its first fire time.
AskFirstFireTime ==
    /\ probe.fn = "next_fire_time" /\ probe.phase = "asked"
    /\ probe' = [probe EXCEPT
                    !.fire = FirstFireTime(CronTrigger(probe.schedule_config), probe.after),
                    !.phase = "armed"]
    /\ UNCHANGED <<now, alive, armed, file, calls, firing, cancelled, faults, ncalls>>

\* The job has run at its fire time and the scheduler asks for the next one.
AskNextFireTimeAfterRun ==
    /\ probe.fn = "next_fire_time" /\ probe.phase = "armed"
    /\ probe.rearmed = NoInstant
    /\ probe' = [probe EXCEPT
                    !.rearmed = NextFireTimeAfterRun(CronTrigger(probe.schedule_config), probe.fire)]
    /\ UNCHANGED <<now, alive, armed, file, calls, firing, cancelled, faults, ncalls>>

\* The same definition is added anew at the very instant of its fire time.
AskFirstFireTimeAgain ==
    /\ probe.fn = "next_fire_time" /\ probe.phase = "armed"
    /\ probe.again = NoInstant
    /\ probe' = [probe EXCEPT
                    !.again = FirstFireTime(CronTrigger(probe.schedule_config), probe.fire)]
    /\ UNCHANGED <<now, alive, armed, file, calls, firing, cancelled, faults, ncalls>>

\* schedule_report makes its checks of the input.
AskValidation ==
    /\ probe.fn = "validate" /\ probe.phase = "asked"
    /\ probe' = [probe EXCEPT
                    !.result = ValidationError(probe.email_config, probe.schedule_config),
                    !.phase = "answered"]
    /\ UNCHANGED <<now, alive, armed, file, calls, firing, cancelled, faults, ncalls>>

\* save_schedule writes the registry with the one job and load_schedules
\* reads it back.
AskSaveAndLoad ==
    /\ probe.fn = "round_trip" /\ probe.phase = "asked"
    /\ LET job_id == JobIdOf("sales", 0)
           written == JsonDump(job_id, ScheduleData(job_id, "sales", probe.email_config,
                                                    probe.schedule_config))
       IN probe' = [probe EXCEPT !.loaded = JsonLoad(written)[job_id],
                                 !.phase = "answered"]
    /\ UNCHANGED <<now, alive, armed, file, calls, firing, cancelled, faults, ncalls>>

NextFunctions ==
    \/ AskFirstFireTime
    \/ AskNextFireTimeAfterRun
    \/ AskFirstFireTimeAgain
    \/ AskValidation
    \/ AskSaveAndLoad

SpecFunctions == InitFunctions /\ [][NextFunctions]_vars

\* ------------------------------------------------------------ properties
\* The call of thread t returns in this step.
Returns(t) == calls[t].pc # "returned" /\ calls'[t].pc = "returned"
\* The process is killed in this step.
CrashStep == alive # {} /\ alive' = {}
\* A send_scheduled_report run starts in this step.
FiringStarts == firing.phase = "none" /\ firing'.phase # "none"
\* The ids get_active_schedules lists
Listed(f) == DOMAIN GetActiveSchedules(f)

\* C1: in a firing that reached the recipients loop, every recipient of the
\* list is attempted, whatever the outcome of the others: when the firing has
\* ended, the recipients attempted are the whole list.
C1_EveryRecipientAttempted ==
    (firing.phase = "done" /\ firing.rendered)
        => firing.attempted = firing.email_config.recipients

\* C2: when remove_schedule(job_id) returns, for a job that schedules.json
\* listed when the call was made and with no I/O failure, get_active_schedules
\* no longer lists the job, whichever instance issued the call.
C2_RemovedJobNotListed ==
    [][\A t \in Thread :
          (Returns(t) /\ calls'[t].op = "remove" /\ calls'[t].pre_in_file
             /\ faults' = 0)
              => calls'[t].job_id \notin Listed(file')]_vars

\* C3: once remove_schedule has returned for a job that existed when it was
\* called (and the id was not registered anew since), no firing of that job
\* starts, in any instance.
C3_NoFiringAfterCancel ==
    [][FiringStarts => firing'.job_id \notin cancelled]_vars

\* C4: remove_schedule returns True exactly when a job with that id existed
\* (listed in schedules.json or armed in the instance) when it was called, and
\* False exactly when none did.
C4_RemoveResultTellsExistence ==
    \A t \in Thread :
        (calls[t].pc = "returned" /\ calls[t].op = "remove" /\ faults = 0)
            => ((calls[t].result = "True")
                   <=> (calls[t].pre_in_file \/ calls[t].pre_armed))

\* C5: a ReportManager started against a registry arms every persisted job:
\* right after its construction the ids armed in it are those of schedules.json.
C5_StartArmsPersistedJobs ==
    [][\A i \in Inst :
          (i \notin alive /\ i \in alive') => DOMAIN armed'[i] = Listed(file')]_vars

\* The inputs C6 lists as rejected: a missing email field, no recipients, a
\* missing or invalid schedule type, a trigger that cannot be constructed.
RejectedInput(e, s) ==
    \/ ~(required_email_fields \subseteq DOMAIN e)
    \/ e.recipients = <<>>
    \/ "type" \notin DOMAIN s
    \/ s.type \notin {"daily", "weekly", "monthly"}
    \/ ~CronFieldsOk(s)

\* C6: a schedule_report call with a rejected input raises in the step that
\* makes the call, and that step leaves schedules.json and every scheduler's
\* armed jobs as they were.
C6_RejectionHasNoEffect ==
    [][\A t \in Thread :
          (calls[t].pc = "idle" /\ calls'[t].op = "schedule"
             /\ RejectedInput(calls'[t].email_config, calls'[t].schedule_config))
              => /\ calls'[t].pc = "returned"
                 /\ calls'[t].result \notin {"job_id", "none"}
                 /\ file' = file
                 /\ armed' = armed]_vars

\* C6 witness: a call was rejected for a trigger that cannot be constructed
\* while the registry and the scheduler of the instance held a job.
C6_Witness ==
    \E t \in Thread :
        /\ calls[t].pc = "returned"
        /\ calls[t].op = "schedule"
        /\ calls[t].result = "bad_trigger"
        /\ Listed(file) # {}
        /\ DOMAIN armed[calls[t].inst] # {}

\* C7: when an access to schedules.json fails during schedule_report or
\* remove_schedule, the call reports failure and the scheduler of the instance
\* and the registry agree about the job of the call.
C7_IOFailureLeavesNoDivergence ==
    [][\A t \in Thread :
          (Returns(t) /\ calls'[t].io_error)
              => /\ calls'[t].result \in {"io_error", "False"}
                 /\ (calls'[t].job_id \in DOMAIN armed'[calls'[t].inst])
                       <=> (calls'[t].job_id \in Listed(file'))]_vars

\* C8: a crash, with no I/O failure before it, leaves schedules.json a complete
\* mapping (or absent as before the first write), never partially written.
C8_CrashLeavesCompleteFile ==
    [][(CrashStep /\ faults = 0) => file'.kind # "partial"]_vars

\* The result of the ended call of thread t is in the registry.
Reflected(t) ==
    IF calls[t].op = "schedule"
    THEN calls[t].job_id \in Listed(file)
    ELSE calls[t].job_id \notin Listed(file)

\* C9: when two calls on different job ids have both succeeded (no I/O
\* failure), schedules.json reflects both mutations.
C9_NoLostUpdate ==
    \A t1, t2 \in Thread :
        (/\ t1 # t2
         /\ faults = 0
         /\ calls[t1].pc = "returned" /\ calls[t2].pc = "returned"
         /\ calls[t1].result \in {"job_id", "True"}
         /\ calls[t2].result \in {"job_id", "True"}
         /\ calls[t1].job_id # calls[t2].job_id)
            => Reflected(t1) /\ Reflected(t2)

\* C10: two successful schedule_report calls never return the same job id.
C10_JobIdsUnique ==
    \A t1, t2 \in Thread :
        (/\ t1 # t2
         /\ calls[t1].pc = "returned" /\ calls[t1].op = "schedule"
         /\ calls[t2].pc = "returned" /\ calls[t2].op = "schedule"
         /\ calls[t1].result = "job_id" /\ calls[t2].result = "job_id")
            => calls[t1].job_id # calls[t2].job_id

\* The live schedulers that hold a job under id j.
Holders(j) == {i \in alive : j \in DOMAIN armed[i]}

\* C11: after a registration under an id that is already armed, exactly one
\* job with that id exists: no id is armed more than once over the live
\* schedulers.
C11_ReplaceLeavesOneJob ==
    \A j \in JobIds : Cardinality(Holders(j)) <= 1

\* C12: a request of the one-time variant, as the schedule page builds it,
\* with a complete email configuration, is accepted by schedule_report: the
\* call ends with a job id.
C12_OneTimeAccepted ==
    \A t \in Thread :
        (/\ calls[t].pc = "returned" /\ calls[t].op = "schedule"
         /\ calls[t].schedule_config = SchedOneTime
         /\ required_email_fields \subseteq DOMAIN calls[t].email_config
         /\ calls[t].email_config.recipients # <<>>)
            => calls[t].result = "job_id"

\* C13: when loading the dataset or generating the report fails in a firing,
\* no delivery is attempted to any recipient: the firing ends as failed with
\* nobody attempted and nobody delivered to.
C13_NoDeliveryAfterRenderFailure ==
    (firing.phase # "none" /\ ~firing.rendered)
        => /\ firing.phase = "done" /\ firing.status = "failed"
           /\ firing.attempted = <<>> /\ firing.delivered = <<>>
C13_Witness ==
    /\ firing.phase = "done" /\ ~firing.rendered
    /\ Len(firing.email_config.recipients) = 2
    /\ firing.attempted = <<>>

\* A step of a firing in which the firing fails, or in which a failed firing
\* ends.
FailedFiringStep ==
    /\ ~CrashStep
    /\ \/ firing.status # "failed" /\ firing'.status = "failed"
       \/ firing.status = "failed" /\ firing'.phase = "none"

\* C14: a failed firing (dataset load, generation or SMTP failure) does not
\* disarm the job: the firing leaves every live scheduler's jobs and
\* schedules.json as they are, so the job it ran is still armed when it ends
\* and is run again when it is next due.
C14_FailedFiringKeepsJob ==
    [][FailedFiringStep =>
          /\ armed' = armed /\ file' = file
          /\ (firing'.phase = "none" /\ firing.job_id \in DOMAIN armed[firing.inst])
                => firing.job_id \in DOMAIN armed'[firing.inst]]_vars
C14_Witness ==
    /\ firing.phase = "done" /\ firing.status = "failed"
    /\ firing.inst \in alive
    /\ firing.job_id \in DOMAIN armed[firing.inst]
    /\ firing.job_id \in Listed(file)

\* What a finished firing reports: "Successfully sent scheduled report" after
\* the loop, "Failed to send scheduled report" from the except clause.
Reported(f) == IF f.status = "sent" THEN "success" ELSE "failed"
\* The overall status the firing f is to have.
Outcome(f) ==
    IF ~f.rendered THEN "failed"
    ELSE IF f.delivered # f.email_config.recipients THEN "degraded"
    ELSE "success"

\* C15: a finished firing has one outcome entry per recipient, and its overall
\* status is failed only when the load or the generation failed, degraded when
\* the report was generated and some recipient failed, success otherwise.
C15_OutcomePerRecipient ==
    firing.phase = "done" =>
        /\ Reported(firing) = Outcome(firing)
        /\ firing.rendered => Len(firing.attempted) = Len(firing.email_config.recipients)

\* C16: send_scheduled_report never lets an exception reach the scheduler:
\* whatever the load, the generation and each SMTP session do, the run ends by
\* returning, after the success print or after the except clause.
C16_FiringReturnsNormally ==
    /\ firing.status \in {"none", "sent", "failed"}
    /\ firing.phase = "done" => firing.status \in {"sent", "failed"}
C16_Witness ==
    /\ firing.phase = "done" /\ firing.status = "failed"
    /\ firing.rendered
    /\ Len(firing.attempted) = 2 /\ Len(firing.delivered) = 1

\* The trigger built from the question's schedule_config has been asked for
\* its first fire time.
FireTimeKnown(type) ==
    /\ probe.fn = "next_fire_time" /\ probe.phase = "armed"
    /\ probe.schedule_config.type = type
\* The last day of t's month, at second sod
LastDayOfMonth(t, sod) ==
    [t EXCEPT !.day = DaysInMonth(t.year, t.month), !.second_of_day = sod]

\* C17: a monthly schedule whose day of month is beyond the length of the
\* month of `after` fires on the last day of that month (28 or 29 in
\* February) when that day's slot is still ahead; the month is not skipped.
C17_MonthlyClampsToLastDay ==
    LET slot == Slot(CronTrigger(probe.schedule_config))
    IN (/\ FireTimeKnown("monthly")
        /\ probe.schedule_config.day > DaysInMonth(probe.after.year, probe.after.month)
        /\ ~Before(LastDayOfMonth(probe.after, slot), probe.after))
           => probe.fire = LastDayOfMonth(probe.after, slot)

\* The same second of the day, on the following day
SameTimeNextDay(t) == At(NextDay(t), t.second_of_day)

\* C18 as stated: for a daily schedule the fire time is at or after `after`,
\* has the wall-clock time hour:minute, and a second call with after' = that
\* fire time gives the instant exactly 24 hours later.
C18_DailySecondCallADayLater ==
    FireTimeKnown("daily") =>
        /\ ~Before(probe.fire, probe.after)
        /\ probe.fire.second_of_day
              = SecondOfDay(probe.schedule_config.hour, probe.schedule_config.minute, 0)
        /\ probe.again # NoInstant => probe.again = SameTimeNextDay(probe.fire)

\* C18, amended: for a daily schedule the fire time is at or after `after`
\* (`after` itself when it is exactly the slot), has the wall-clock time
\* hour:minute, and is no more than a day ahead; the fire time the scheduler
\* computes after the run at that fire time is exactly 24 hours later, while a
\* call with after' = that fire time and no previous run gives that same fire
\* time again.
C18_DailyRearmADayLater ==
    FireTimeKnown("daily") =>
        /\ ~Before(probe.fire, probe.after)
        /\ probe.fire.second_of_day
              = SecondOfDay(probe.schedule_config.hour, probe.schedule_config.minute, 0)
        /\ Before(probe.fire, SameTimeNextDay(probe.after))
        /\ probe.rearmed # NoInstant => probe.rearmed = SameTimeNextDay(probe.fire)
        /\ probe.again # NoInstant => probe.again = probe.fire
C18_Witness ==
    /\ FireTimeKnown("daily")
    /\ probe.after = Instant(2024, 12, 31, SecondOfDay(8, 0, 0))
    /\ probe.fire = probe.after
    /\ probe.rearmed = Instant(2025, 1, 1, SecondOfDay(8, 0, 0))
    /\ probe.again = probe.fire

\* Midnight of the k-th day after t's
RECURSIVE PlusDays(_, _)
PlusDays(t, k) == IF k = 0 THEN At(t, 0) ELSE PlusDays(NextDay(t), k - 1)

\* On the k-th day after `after`, the slot is on weekday d and not before
\* `after`.
WeeklyCandidate(k, d, slot) ==
    /\ Weekday(PlusDays(probe.after, k)) = d
    /\ ~Before(At(PlusDays(probe.after, k), slot), probe.after)

\* C19: for a weekly schedule the fire time is the earliest instant at or
\* after `after` that is on the schedule's weekday at hour:minute, at most 7
\* days ahead; for Monday (the page's index 0) at 08:00 asked on Tuesday
\* 2024-01-02 at 09:00 it is Monday 2024-01-08 at 08:00, 6 days later.
C19_WeeklyEarliestMatchingDay ==
    LET d == probe.schedule_config.day
        slot == SecondOfDay(probe.schedule_config.hour, probe.schedule_config.minute, 0)
    IN FireTimeKnown("weekly") =>
        /\ \E k \in 0..7 :
              /\ probe.fire = At(PlusDays(probe.after, k), slot)
              /\ WeeklyCandidate(k, d, slot)
              /\ \A j \in 0..(k - 1) : ~WeeklyCandidate(j, d, slot)
        /\ (/\ probe.schedule_config = WeeklyConfig("Monday", 8, 0)
            /\ probe.after = Instant(2024, 1, 2, SecondOfDay(9, 0, 0)))
              => probe.fire = Instant(2024, 1, 8, SecondOfDay(8, 0, 0))
C19_Witness ==
    /\ FireTimeKnown("weekly")
    /\ probe.schedule_config.day = 0
    /\ probe.after = Instant(2024, 1, 2, SecondOfDay(9, 0, 0))
    /\ probe.fire = At(PlusDays(probe.after, 6), SecondOfDay(8, 0, 0))

\* A valid job definition: every required transport field, at least one
\* recipient, one of the two formats, a known schedule type, and schedule
\* fields in range.
ValidDefinition(e, s) ==
    /\ required_email_fields \subseteq DOMAIN e
    /\ e.recipients # <<>>
    /\ e.format \in {"CSV", "PDF"}
    /\ "type" \in DOMAIN s
    /\ s.type \in {"daily", "weekly", "monthly"}
    /\ Get(s, "hour", 0) \in 0..23
    /\ Get(s, "minute", 0) \in 0..59
    /\ s.type = "weekly" => Get(s, "day", 0) \in 0..6
    /\ s.type = "monthly" => Get(s, "day", 1) \in 1..31

\* C20: schedule_report accepts an input exactly when it is a valid job
\* definition: every input that passes its checks is valid, and every input
\* that is not valid is rejected.
C20_AcceptedIffValid ==
    (probe.fn = "validate" /\ probe.phase = "answered")
        => (probe.result = "none"
              <=> ValidDefinition(probe.email_config, probe.schedule_config))

\* C21: the registry entry read back after save_schedule has the schedule
\* type and every schedule field as given and every field of email_config as
\* given except the sender password, which is not in the file.
C21_RoundTripWithoutPassword ==
    (probe.fn = "round_trip" /\ probe.phase = "answered") =>
        /\ probe.loaded.schedule_config = probe.schedule_config
        /\ \A k \in DOMAIN probe.email_config \ {"sender_password"} :
              /\ k \in DOMAIN probe.loaded.email_config
              /\ probe.loaded.email_config[k] = probe.email_config[k]
        /\ "sender_password" \notin DOMAIN probe.loaded.email_config

\* C22: every firing that has begun its deliveries completes, also when the
\* SMTP server of some recipient never answers.
C22_FiringCompletes ==
    (firing.phase = "send") ~> (firing.phase = "done")

\* Thread t begins a remove_schedule call in this step.
RemoveBegins(t) == calls[t].pc = "idle" /\ calls'[t].op = "remove"

\* C23: a remove_schedule call for a listed job whose firing is in flight,
\* with recipients still to go, is accepted: it does not fail, the job leaves the live scheduler that is
\* firing it, so that no later firing of it starts, and the firing in flight
\* is not touched.
C23_CancelDuringFiringAccepted ==
    [][\A t \in Thread :
          (/\ RemoveBegins(t)
           /\ firing.phase = "send"
           /\ firing.job_id = calls'[t].job_id
           /\ calls'[t].pre_in_file)
             => /\ calls'[t].result # "False"
                /\ calls'[t].job_id \notin DOMAIN armed'[firing.inst]
                /\ firing' = firing]_vars

\* C24: when the process comes up again after it was down, every job in
\* schedules.json is armed in the scheduler that starts, so that the firing
\* it missed can take place once, at the time of the restart.
C24_MissedFiringCanCatchUp ==
    [][(alive = {} /\ alive' # {} /\ file.kind = "valid")
          => \A j \in Listed(file) : \E i \in alive' : j \in DOMAIN armed'[i]]_vars

\* C25: at every moment at most one running scheduler belongs to
\* schedules.json.
C25_OneRunningScheduler ==
    Cardinality(alive) <= 1

\* C26: a second remove_schedule call for an id, after a removal of it that
\* succeeded, does not raise (it returns a result) and leaves schedules.json
\* and the scheduler's jobs as they are.
C26_SecondRemoveChangesNothing ==
    [][(/\ RemoveBegins(1)
        /\ calls'[1].job_id \in cancelled
        /\ calls'[1].job_id \notin DOMAIN armed[1]
        /\ calls'[1].job_id \notin Listed(file))
          => /\ calls'[1].pc = "returned"
             /\ calls'[1].result \in {"True", "False"}
             /\ file' = file /\ armed' = armed]_vars
C26_Witness ==
    /\ calls[1].pc = "returned" /\ calls[1].op = "remove"
    /\ calls[1].result = "False"
    /\ calls[1].job_id \in cancelled
    /\ ~calls[1].pre_armed /\ ~calls[1].pre_in_file
    /\ Listed(file) # {}

\* C27: in one ReportManager by itself, started without schedules.json, with
\* no I/O failure, whenever no call is in progress the job ids in
\* schedules.json are the job ids armed in its scheduler.
C27_RegistryMatchesArmed ==
    (1 \in alive /\ calls[1].pc \in {"idle", "returned"})
        => Listed(file) = DOMAIN armed[1]
C27_Witness ==
    /\ calls[1].pc = "returned" /\ calls[1].op = "remove" /\ calls[1].result = "True"
    /\ Listed(file) # {}
    /\ Listed(file) = DOMAIN armed[1]

\* seq is the beginning of the sequence whole.
IsPrefix(seq, whole) ==
    /\ Len(seq) <= Len(whole)
    /\ \A k \in 1..Len(seq) : seq[k] = whole[k]

\* C28: in every firing the recipients attempted, and those the message was
\* sent to, are a beginning of the recipients list in its order; once a
\* delivery has failed the firing is over, so nobody after the failed
\* recipient is attempted.
C28_AttemptedIsPrefix ==
    firing.phase # "none" =>
        /\ IsPrefix(firing.attempted, firing.email_config.recipients)
        /\ IsPrefix(firing.delivered, firing.attempted)
        /\ Len(firing.attempted) - Len(firing.delivered) \in {0, 1}
        /\ firing.delivered # firing.attempted
              => firing.phase = "done" /\ firing.status = "failed"
C28_Witness ==
    /\ firing.phase = "done" /\ firing.status = "failed"
    /\ firing.email_config.recipients = <<"r1", "r2">>
    /\ firing.attempted = <<"r1">>
    /\ firing.delivered = <<>>

\* C29: remove_schedule called on an instance whose scheduler does not hold
\* the job id returns False and leaves schedules.json as it is, also when the
\* file lists the id.
C29_RemoveOnOtherInstanceIsNoOp ==
    [][\A t \in Thread :
          (RemoveBegins(t) /\ calls'[t].job_id \notin DOMAIN armed[calls'[t].inst])
             => /\ calls'[t].pc = "returned"
                /\ calls'[t].result = "False"
                /\ file' = file]_vars
C29_Witness ==
    \E t \in Thread :
        /\ calls[t].pc = "returned" /\ calls[t].op = "remove"
        /\ calls[t].result = "False"
        /\ calls[t].pre_in_file /\ ~calls[t].pre_armed
        /\ calls[t].job_id \in Listed(file)
        /\ \E i \in alive : calls[t].job_id \in DOMAIN armed[i]

\* C30: when schedules.json is missing, cannot be read or is not valid JSON,
\* load_schedules yields the empty mapping instead of an error: save_schedule
\* goes on with a mapping of just the new job, and the write of a
\* schedule_report that succeeds makes exactly that mapping the file, whatever
\* the file held before.
C30_UnreadableFileIsReplaced ==
    [][\A t \in Thread :
          /\ (/\ calls[t].pc = "save_load" /\ calls'[t].pc # "save_load"
              /\ ~CrashStep
              /\ (file.kind # "valid" \/ faults' # faults))
                => /\ calls'[t].pc = "save_open"
                   /\ DOMAIN calls'[t].schedules = {calls[t].job_id}
          /\ (/\ calls[t].pc = "save_dump" /\ calls'[t].pc = "returned"
              /\ calls'[t].result = "job_id")
                => file' = Written(calls[t].schedules)]_vars
C30_Witness ==
    \E t \in Thread :
        /\ calls[t].pc = "returned" /\ calls[t].op = "schedule"
        /\ calls[t].result = "job_id" /\ calls[t].io_error
        /\ Listed(file) = {calls[t].job_id}
        /\ \E j \in DOMAIN armed[calls[t].inst] : j \notin Listed(file)
====
